---- MODULE Spec2Model ----
(***************************************************************************)
(* Model of the PhantomBuster webhook receiver (src/app/main.py): the      *)
(* /webhook handler, its JSON and CSV ingestion loops, the CSV decoder,    *)
(* the engagement-rate calculation and the three Supabase tables it        *)
(* writes.                                                                 *)
(*                                                                         *)
(* Python values are tagged records: [t |-> "int", n |-> 5],               *)
(* [t |-> "str", s |-> <<"a","b">>] (a string is its sequence of           *)
(* characters), [t |-> "null"] (None), [t |-> "dict", d |-> f] (a dict, f  *)
(* a function from its keys), [t |-> "list", items |-> seq].               *)
(* engagement_rate is held in hundredths of a percent (40.0 is 4000).      *)
(***************************************************************************)
EXTENDS Integers, Sequences, FiniteSets, TLC

VARIABLES
    supabase,            \* module-level client handle: "client" or "None"
    pc,                  \* position in webhook(): "idle", "json_loop", "csv_loop", "done"
    data,                \* request.json of the call being handled
    csv_content,         \* what download_csv_from_url returned, None before
    batch,               \* result_data (JSON) or posts_data (CSV)
    i,                   \* 1-based index of the next record of the batch
    processed_count,     \* processed_items / processed_count
    response,            \* the (body, status code) returned, NoResponse before
    company_profile,     \* table company_profile: natural key -> row
    posts,               \* table posts: natural key -> row
    engagement_metrics,  \* table engagement_metrics: sequence of rows
    next_id,             \* next identity the store hands out
    calls,               \* history: the store calls made by this webhook call
    errors,              \* history: indexes logged by the per-record except
    visited,             \* history: indexes the loop body was entered for
    now                  \* the clock datetime.utcnow() reads, in ticks

vars == <<supabase, pc, data, csv_content, batch, i, processed_count, response,
          company_profile, posts, engagement_metrics, next_id, calls, errors,
          visited, now>>

(***************************************************************************)
(* Bounds                                                                  *)
(***************************************************************************)
MaxBatch == 2

(***************************************************************************)
(* Python values                                                           *)
(***************************************************************************)
None == [t |-> "null"]
I(n) == [t |-> "int", n |-> n]
S(s) == [t |-> "str", s |-> s]
Empty == S(<< >>)

IsInt(v) == v.t = "int"
IsStr(v) == v.t = "str"

\* bool(v)
Truthy(v) ==
    CASE v.t = "int" -> v.n # 0
      [] v.t = "str" -> v.s # << >>
      [] v.t = "dict" -> DOMAIN v.d # {}
      [] v.t = "list" -> v.items # << >>
      [] OTHER -> FALSE

\* d.get(k)
Get(d, k) == IF k \in DOMAIN d THEN d[k] ELSE None

\* d.get(k, default)
GetD(d, k, default) == IF k \in DOMAIN d THEN d[k] ELSE default

\* d.get(k1) or d.get(k2) or ... or last
RECURSIVE FirstTruthy(_, _, _)
FirstTruthy(d, keys, last) ==
    IF keys = << >> THEN last
    ELSE IF Truthy(Get(d, Head(keys))) THEN Get(d, Head(keys))
    ELSE FirstTruthy(d, Tail(keys), last)

Whitespace == {" ", "\t"}

RECURSIVE LStrip(_)
LStrip(s) ==
    IF s # << >> /\ Head(s) \in Whitespace THEN LStrip(Tail(s)) ELSE s

RECURSIVE RStrip(_)
RStrip(s) ==
    IF s # << >> /\ s[Len(s)] \in Whitespace
    THEN RStrip(SubSeq(s, 1, Len(s) - 1)) ELSE s

\* str.strip()
Strip(s) == RStrip(LStrip(s))

DigitValue == [c \in {"0", "1", "2", "3", "4", "5", "6", "7", "8", "9"} |->
    CASE c = "0" -> 0 [] c = "1" -> 1 [] c = "2" -> 2 [] c = "3" -> 3
      [] c = "4" -> 4 [] c = "5" -> 5 [] c = "6" -> 6 [] c = "7" -> 7
      [] c = "8" -> 8 [] c = "9" -> 9]

IsDigits(s) == s # << >> /\ \A k \in 1..Len(s) : s[k] \in DOMAIN DigitValue

RECURSIVE DigitsValue(_)
DigitsValue(s) ==
    IF s = << >> THEN 0
    ELSE 10 * DigitsValue(SubSeq(s, 1, Len(s) - 1)) + DigitValue[s[Len(s)]]

\* int(v): [ok |-> TRUE, n |-> value], or [ok |-> FALSE] when int() raises
\* ValueError (text that is not an optionally signed run of digits once
\* stripped) or TypeError (None, a list)
PyInt(v) ==
    CASE v.t = "int" -> [ok |-> TRUE, n |-> v.n]
      [] v.t = "str" ->
            LET s == Strip(v.s)
                signed == s # << >> /\ Head(s) \in {"+", "-"}
                digits == IF signed THEN Tail(s) ELSE s
            IN  IF IsDigits(digits)
                THEN [ok |-> TRUE,
                      n |-> IF signed /\ Head(s) = "-"
                            THEN 0 - DigitsValue(digits) ELSE DigitsValue(digits)]
                ELSE [ok |-> FALSE]
      [] OTHER -> [ok |-> FALSE]

\* the characters of s joined into one string (a dict key)
RECURSIVE Text(_)
Text(s) == IF s = << >> THEN "" ELSE Head(s) \o Text(Tail(s))

(***************************************************************************)
(* calculate_engagement_rate                                               *)
(***************************************************************************)
\* round(num / den * 100, 2) in hundredths, ties to even; den # 0
Round2(num, den) ==
    LET n == IF den < 0 THEN 0 - num ELSE num
        d == IF den < 0 THEN 0 - den ELSE den
        q == (n * 10000) \div d
        r == (n * 10000) % d
    IN  IF 2 * r < d THEN q
        ELSE IF 2 * r > d THEN q + 1
        ELSE IF q % 2 = 0 THEN q ELSE q + 1

\* [ok |-> TRUE, rate |-> hundredths], or [ok |-> FALSE] when the sum or
\* the division raises TypeError (a None or text operand)
calculate_engagement_rate(post) ==
    LET got == GetD(post, "impressions", I(1))
        impressions == IF Truthy(got) THEN got ELSE I(1)
        likes == GetD(post, "likes", I(0))
        comments == GetD(post, "comments", I(0))
        shares == GetD(post, "shares", I(0))
        clicks == GetD(post, "clicks", I(0))
    IN  IF \A v \in {impressions, likes, comments, shares, clicks} : IsInt(v)
        THEN [ok |-> TRUE,
              rate |-> Round2(likes.n + comments.n + shares.n + clicks.n,
                              impressions.n)]
        ELSE [ok |-> FALSE]

(***************************************************************************)
(* extract_hashtags_and_mentions                                           *)
(***************************************************************************)
WordChars == DOMAIN DigitValue \cup
    {"a", "b", "c", "d", "e", "f", "g", "h", "i", "j", "k", "l", "m", "n",
     "o", "p", "q", "r", "s", "t", "u", "v", "w", "x", "y", "z", "_",
     "A", "B", "C", "D", "E", "F", "G", "H", "I", "J", "K", "L", "M", "N",
     "O", "P", "Q", "R", "S", "T", "U", "V", "W", "X", "Y", "Z"}

\* the longest run of word characters s starts with
RECURSIVE WordPrefix(_)
WordPrefix(s) ==
    IF s # << >> /\ Head(s) \in WordChars
    THEN <<Head(s)>> \o WordPrefix(Tail(s)) ELSE << >>

\* re.findall(mark + r'\w+', s), in order of appearance, duplicates kept
RECURSIVE FindAll(_, _)
FindAll(mark, s) ==
    IF s = << >> THEN << >>
    ELSE LET w == WordPrefix(Tail(s))
         IN  IF Head(s) = mark /\ w # << >>
             THEN <<<<mark>> \o w>> \o FindAll(mark, SubSeq(s, Len(w) + 2, Len(s)))
             ELSE FindAll(mark, Tail(s))

extract_hashtags_and_mentions(content) ==
    IF content = << >>
    THEN [hashtags |-> << >>, mentions |-> << >>]
    ELSE [hashtags |-> FindAll("#", content), mentions |-> FindAll("@", content)]

(***************************************************************************)
(* parse_csv_content: csv.DictReader over the text, then the row cleaning  *)
(***************************************************************************)
\* s cut at every sep, the pieces in order (always at least one piece)
RECURSIVE Split(_, _)
Split(s, sep) ==
    IF \A k \in 1..Len(s) : s[k] # sep THEN <<s>>
    ELSE LET k == CHOOSE j \in 1..Len(s) :
                      s[j] = sep /\ \A m \in 1..(j - 1) : s[m] # sep
         IN  <<SubSeq(s, 1, k - 1)>> \o Split(SubSeq(s, k + 1, Len(s)), sep)

\* the rows csv.reader yields: one per line, a blank line yielding []
CsvReader(csv_text) ==
    LET pieces == Split(csv_text, "\n")
        lines == IF pieces[Len(pieces)] = << >>
                 THEN SubSeq(pieces, 1, Len(pieces) - 1) ELSE pieces
    IN  [k \in 1..Len(lines) |->
            IF lines[k] = << >> THEN << >> ELSE Split(lines[k], ",")]

\* One DictReader row cleaned (line 79): [ok |-> TRUE, row |-> dict], or
\* [ok |-> FALSE] when a surplus cell sits under the key None and
\* k.strip() raises.  A short row keeps None under its missing columns.
CleanedRow(fieldnames, cells) ==
    IF Len(cells) > Len(fieldnames) THEN [ok |-> FALSE]
    ELSE LET keys == {Text(Strip(fieldnames[k])) : k \in 1..Len(fieldnames)}
             \* later columns overwrite earlier ones of the same cleaned name
             last(key) == CHOOSE k \in 1..Len(fieldnames) :
                            /\ Text(Strip(fieldnames[k])) = key
                            /\ \A m \in (k + 1)..Len(fieldnames) :
                                   Text(Strip(fieldnames[m])) # key
         IN  [ok |-> TRUE,
              row |-> [key \in keys |->
                          IF last(key) <= Len(cells)
                          THEN S(Strip(cells[last(key)])) ELSE None]]

RECURSIVE CleanRows(_, _)
CleanRows(fieldnames, rows) ==
    IF rows = << >> THEN << >>
    ELSE LET c == CleanedRow(fieldnames, Head(rows))
             rest == CleanRows(fieldnames, Tail(rows))
         IN  IF Head(rows) = << >> THEN rest      \* DictReader skips blank rows
             ELSE IF c.ok THEN <<c.row>> \o rest
             ELSE rest                            \* except row_error: continue

parse_csv_content(csv_text) ==
    LET rows == CsvReader(csv_text)
    IN  IF rows = << >> THEN << >>
        ELSE CleanRows(Head(rows), Tail(rows))

(***************************************************************************)
(* The persistence collaborator (Supabase): tables keyed by natural key.   *)
(* What a call does is the store's choice: "ok" writes and returns the     *)
(* row, "nodata" writes and returns empty data, "dropped" writes nothing   *)
(* and returns empty data, "raise" writes nothing and raises.              *)
(***************************************************************************)
UpsertOutcomes == {"ok", "nodata", "dropped", "raise"}
InsertOutcomes == {"ok", "raise"}

Written(out) == out \in {"ok", "nodata"}

\* table after upsert(row) keyed by key; a row new to the table gets id
UpsertInto(table, key, row, id, out) ==
    IF Written(out)
    THEN [k \in DOMAIN table \cup {key} |->
            IF k = key
            THEN [id |-> IF key \in DOMAIN table THEN table[key].id ELSE id] @@ row
            ELSE table[k]]
    ELSE table

\* execute().data of that upsert
UpsertData(table, key, row, id, out) ==
    IF out = "ok" THEN <<UpsertInto(table, key, row, id, out)[key]>> ELSE << >>

NextIdAfter(table, key, id, out) ==
    IF Written(out) /\ key \notin DOMAIN table THEN id + 1 ELSE id

\* table engagement_metrics after a write of row (no key in the payload)
AppendRow(table, row, out) == IF out = "ok" THEN Append(table, row) ELSE table

\* the guard on post_insert.data left out: a missing identity is written
\* as post_id 0
IdentityUnguarded(post_insert) ==
    IF post_insert # << >>
    THEN [some |-> TRUE, id |-> post_insert[1].id]
    ELSE [some |-> TRUE, id |-> 0]

\* post_insert.data and len(post_insert.data) > 0, then data[0]['id']
Identity(post_insert) ==
    IF post_insert # << >>
    THEN [some |-> TRUE, id |-> post_insert[1].id]
    ELSE [some |-> FALSE]

Call(rec, table, op, out, id) ==
    [rec |-> rec, table |-> table, op |-> op, result |-> out, id |-> id]

(***************************************************************************)
(* Inputs: record shapes, CSV texts, envelopes                             *)
(***************************************************************************)
D(f) == [t |-> "dict", d |-> f]
IsDict(v) == v.t = "dict"

Acme == <<"a", "c", "m", "e">>
P1 == <<"p", "1">>
P2 == <<"p", "2">>

Company1 == D([companyName |-> S(Acme), followerCount |-> I(10)])
CompanyAndPost == D([companyName |-> S(Acme), followerCount |-> I(20),
                     postId |-> S(P1), likes |-> I(1)])
CompanyNull == D([companyName |-> None, postId |-> S(P1)])
Post1 == D([postId |-> S(P1), content |-> S(<<"h", "i", " ", "#", "a">>),
            likes |-> I(1), comments |-> I(1), shares |-> I(1),
            clicks |-> I(1), impressions |-> I(10)])
Post1b == D([postId |-> S(P1), content |-> S(<<"y", "o">>),
             likes |-> I(1), comments |-> I(1), shares |-> I(1),
             clicks |-> I(1), impressions |-> I(0)])
Post2 == D([postId |-> S(P2)])
PostNullId == D([postId |-> None, likes |-> I(2), impressions |-> I(3)])
PostNullLikes == D([postId |-> S(P2), likes |-> None])
Unknown == D([url |-> S(<<"x">>)])

JsonItems == {Company1, CompanyAndPost, CompanyNull, Post1, Post1b, Post2,
              PostNullId, PostNullLikes, Unknown, I(7)}

\* the sequences over S of length at most n
RECURSIVE SeqsUpTo(_, _)
SeqsUpTo(set, n) ==
    IF n = 0 THEN {<< >>}
    ELSE LET shorter == SeqsUpTo(set, n - 1)
         IN  shorter \cup {Append(q, x) : q \in shorter, x \in set}

\* A JSON document as text: json.loads gives doc when valid
JsonText(doc) == [t |-> "json", valid |-> TRUE, doc |-> doc]
NotJson == [t |-> "json", valid |-> FALSE]
List(items) == [t |-> "list", items |-> items]

CsvHeader == <<<<"p", "o", "s", "t", "U", "r", "l">>,
               <<"c", "o", "n", "t", "e", "n", "t">>,
               <<"l", "i", "k", "e", "s">>,
               <<"c", "l", "i", "c", "k", "s">>,
               <<" ", "i", "m", "p", "r", "e", "s", "s", "i", "o", "n", "s">>,
               <<"c", "o", "m", "p", "a", "n", "y", "N", "a", "m", "e">>>>

\* data rows, as cells
CsvRows ==
    { <<<<"u", "1">>, <<" ", "h", "i", " ", "#", "a", " ">>, <<"1">>, <<"1">>, <<"1", "0">>, << >>>>,
      <<<<"u", "1">>, <<"y", "o">>, <<" ", "2">>, <<"0">>, <<"3">>, << >>>>,
      <<<< >>, <<"h", "i">>, <<"a", "b", "c">>, <<"0">>, <<"0">>, << >>>>,
      <<<<"u", "2">>, <<"x">>, <<"1">>, <<"z">>, <<"1", "0">>, << >>>>,
      <<<< >>, << >>, << >>, << >>, << >>, Acme>>,
      <<<<"u", "2">>, <<"x">>>>,
      <<<<"u", "2">>, <<"x">>, <<"1">>, <<"1">>, <<"1">>, << >>, <<"e">>>> }

RECURSIVE Join(_, _)
Join(pieces, sep) ==
    IF pieces = << >> THEN << >>
    ELSE IF Len(pieces) = 1 THEN Head(pieces)
    ELSE Head(pieces) \o <<sep>> \o Join(Tail(pieces), sep)

\* the text of a CSV file with these rows under CsvHeader, every line ended
RECURSIVE CsvLines(_)
CsvLines(rows) ==
    IF rows = << >> THEN << >>
    ELSE Join(Head(rows), ",") \o <<"\n">> \o CsvLines(Tail(rows))

CsvTexts == {CsvLines(<<CsvHeader>> \o rows) : rows \in SeqsUpTo(CsvRows, MaxBatch)}

Url == S(<<"h", "t", "t", "p">>)
UrlFixed == S(<<"h", "t", "t", "p", "2">>)

\* what download_csv_from_url(csv_url) can return: None (the request
\* failed), an empty body or a CSV text; UrlFixed serves one file
Downloads(csv_url) ==
    IF csv_url = UrlFixed
    THEN {S(CsvLines(<<CsvHeader, CHOOSE row \in CsvRows : Len(row) = 2>>))}
    ELSE {None, Empty} \cup {S(text) : text \in CsvTexts}

OneItem == JsonText(List(<<Post1>>))

\* request.json: BadRequest stands for a body get_json() rejects
BadRequest == [t |-> "badrequest"]

SpecialEnvelopes ==
    { BadRequest, None, D(<< >>), List(<<I(1)>>),
      D([agentId |-> I(1)]),
      D([csv_url |-> UrlFixed]), D([downloadUrl |-> UrlFixed]),
      D([resultUrl |-> UrlFixed]),
      D([csvUrl |-> UrlFixed, resultObject |-> OneItem]),
      D([csvUrl |-> Empty, resultObject |-> OneItem]),
      D([resultObject |-> NotJson]),
      D([resultObject |-> List(<<Post1>>)]),
      D([resultObject |-> JsonText(D([postId |-> S(P1)]))]),
      D([resultObject |-> JsonText(S(P1))]),
      D([resultObject |-> JsonText(I(5))]),
      D([resultObject |-> JsonText(None)]) }

Envelopes ==
    SpecialEnvelopes
    \cup {D([csvUrl |-> Url])}
    \cup {D([resultObject |-> JsonText(List(items))]) :
             items \in SeqsUpTo(JsonItems, MaxBatch)}

(***************************************************************************)
(* webhook(): from the call to the start of a loop, or to an early return  *)
(***************************************************************************)
Resp(code, body) == [code |-> code, body |-> body]
NoResponse == Resp(0, [status |-> "none"])
Error(code, message) == Resp(code, [status |-> "error", message |-> message])

Return(r) == [pc |-> "done", batch |-> << >>, response |-> r]
\* the records iterated from the last to the first
LoopReversed(at, records) ==
    [pc |-> at,
     batch |-> [k \in 1..Len(records) |-> records[Len(records) + 1 - k]],
     response |-> NoResponse]

\* for ... in enumerate(records): the loop runs over records as decoded
Loop(at, records) == [pc |-> at, batch |-> records, response |-> NoResponse]

\* json.loads(data['resultObject']) and the checks on what it gives
JsonBranch(resultObject) ==
    IF resultObject.t # "json"
    THEN Return(Error(500, "Internal server error"))     \* TypeError, line 547
    ELSE IF ~resultObject.valid
    THEN Return(Error(400, "Invalid JSON in resultObject"))
    ELSE IF resultObject.doc.t \in {"int", "null"}
    THEN Return(Error(500, "Internal server error"))     \* len() raises, line 460
    ELSE IF resultObject.doc.t # "list"
    THEN Return(Error(400, "resultObject should contain a list"))
    ELSE Loop("json_loop", resultObject.doc.items)

\* the check for an empty posts_data left out
CsvBranchAnyRows(downloaded) ==
    IF ~Truthy(downloaded)
    THEN Return(Error(400, "Failed to download CSV"))
    ELSE Loop("csv_loop", parse_csv_content(downloaded.s))

\* the decoded rows that carry a companyName kept out of the posts loop
CsvBranchSkipCompanies(downloaded) ==
    IF ~Truthy(downloaded)
    THEN Return(Error(400, "Failed to download CSV"))
    ELSE LET posts_data == parse_csv_content(downloaded.s)
         IN  IF posts_data = << >>
             THEN Return(Error(400, "No valid posts found in CSV"))
             ELSE Loop("csv_loop",
                       SelectSeq(posts_data,
                                 LAMBDA post : ~Truthy(Get(post, "companyName"))))

\* download_csv_from_url gave csv_content
CsvBranch(downloaded) ==
    IF ~Truthy(downloaded)
    THEN Return(Error(400, "Failed to download CSV"))
    ELSE LET posts_data == parse_csv_content(downloaded.s)
         IN  IF posts_data = << >>
             THEN Return(Error(400, "No valid posts found in CSV"))
             ELSE Loop("csv_loop", posts_data)

\* data.get('csvUrl') or data.get('csv_url') or ..., None when data has no
\* get()
CsvUrl(env) ==
    IF IsDict(env)
    THEN FirstTruthy(env.d, <<"csvUrl", "csv_url", "downloadUrl">>,
                     Get(env.d, "resultUrl"))
    ELSE None

\* the handle check left out
HandleNeverMissing(handle) == FALSE

\* if not supabase
HandleMissing(handle) == handle = "None"

\* webhook() up to its first loop iteration: env is request.json, download
\* what the GET of the CSV URL gives
Begin(handle, env, download) ==
    IF HandleMissing(handle)
    THEN Return(Error(500, "Database connection not available"))
    ELSE IF env = BadRequest
    THEN Return(Error(500, "Internal server error"))
    ELSE IF ~Truthy(env)
    THEN Return(Error(400, "No JSON data received"))
    ELSE IF ~IsDict(env)
    THEN Return(Error(500, "Internal server error"))     \* data.keys() raises
    ELSE IF Truthy(CsvUrl(env)) THEN CsvBranch(download)
    ELSE IF "resultObject" \in DOMAIN env.d
    THEN JsonBranch(env.d.resultObject)
    ELSE Return(Error(400, "No CSV URL or resultObject found in webhook data"))

\* the download is an input of the calls that reach line 431
Downloading(handle, env) ==
    ~HandleMissing(handle) /\ env # BadRequest /\ Truthy(env) /\ Truthy(CsvUrl(env))

Receive(env, download) ==
    /\ pc = "idle"
    /\ LET b == Begin(supabase, env, download)
       IN  /\ pc' = b.pc
           /\ batch' = b.batch
           /\ response' = b.response
    /\ data' = env
    /\ csv_content' = download
    /\ UNCHANGED <<supabase, i, processed_count, company_profile, posts,
                   engagement_metrics, next_id, calls, errors, visited, now>>

(***************************************************************************)
(* The JSON loop body, lines 471-528                                       *)
(***************************************************************************)
\* the two membership tests in the other order
ClassifyPostFirst(item) ==
    IF item.t \in {"int", "null"} THEN "raise"
    ELSE IF ~IsDict(item) THEN "unknown"
    ELSE IF "postId" \in DOMAIN item.d THEN "post"
    ELSE IF "companyName" \in DOMAIN item.d THEN "company"
    ELSE "unknown"

\* which branch of the loop body an item takes; "raise" when the test
\* 'companyName' in item raises TypeError
Classify(item) ==
    IF item.t \in {"int", "null"} THEN "raise"
    ELSE IF ~IsDict(item) THEN "unknown"
    ELSE IF "companyName" \in DOMAIN item.d THEN "company"
    ELSE IF "postId" \in DOMAIN item.d THEN "post"
    ELSE "unknown"

CompanyPayload(item, at) ==
    [name |-> item["companyName"],
     linkedin_url |-> GetD(item, "companyUrl", Empty),
     followers |-> GetD(item, "followerCount", I(0)),
     website |-> GetD(item, "website", Empty),
     description |-> GetD(item, "description", Empty),
     industry |-> GetD(item, "industry", Empty),
     company_size |-> GetD(item, "companySize", Empty),
     specialties |-> List(<< >>),
     location |-> GetD(item, "location", Empty),
     fetched_at |-> at]

PostPayload(item) ==
    [linkedin_post_id |-> Get(item, "postId"),
     content |-> GetD(item, "content", Empty),
     post_type |-> GetD(item, "postType", Empty),
     published_at |-> GetD(item, "publishedAt", Empty),
     author_id |-> GetD(item, "authorId", Empty),
     hashtags |-> GetD(item, "hashtags", List(<< >>)),
     mentions |-> GetD(item, "mentions", List(<< >>)),
     raw_data |-> D(item)]

MetricsPayload(item, post_id, rate, at) ==
    [post_id |-> post_id,
     likes |-> GetD(item, "likes", I(0)),
     comments |-> GetD(item, "comments", I(0)),
     shares |-> GetD(item, "shares", I(0)),
     impressions |-> GetD(item, "impressions", I(0)),
     clicks |-> GetD(item, "clicks", I(0)),
     engagement_rate |-> rate,
     measured_at |-> at]

\* the except clause leaving the loop instead of continuing
CaughtBreak ==
    /\ errors' = errors \cup {i}
    /\ i' = Len(batch) + 1

\* except Exception as item_error: print, continue
Caught ==
    /\ errors' = errors \cup {i}
    /\ i' = i + 1

InLoop(at) == pc = at /\ i <= Len(batch)

\* for i, item in enumerate(...): the body is entered for record i
Enter == visited' = Append(visited, i)

JsonRaise ==
    /\ InLoop("json_loop")
    /\ Enter
    /\ Classify(batch[i]) = "raise"
    /\ Caught
    /\ UNCHANGED <<supabase, pc, data, csv_content, batch, processed_count, response,
                   company_profile, posts, engagement_metrics, next_id, calls, now>>

\* the else branch counting the record it skips
JsonUnknownCounted ==
    /\ InLoop("json_loop")
    /\ Enter
    /\ Classify(batch[i]) = "unknown"
    /\ i' = i + 1
    /\ processed_count' = processed_count + 1
    /\ UNCHANGED <<supabase, pc, data, csv_content, batch, response,
                   company_profile, posts, engagement_metrics, next_id, calls,
                   errors, now>>

\* else: print "Unknown item type"
JsonUnknown ==
    /\ InLoop("json_loop")
    /\ Enter
    /\ Classify(batch[i]) = "unknown"
    /\ i' = i + 1
    /\ UNCHANGED <<supabase, pc, data, csv_content, batch, processed_count, response,
                   company_profile, posts, engagement_metrics, next_id, calls,
                   errors, now>>

JsonCompany(up) ==
    /\ InLoop("json_loop")
    /\ Enter
    /\ Classify(batch[i]) = "company"
    /\ LET row == CompanyPayload(batch[i].d, now)
       IN  /\ company_profile' = UpsertInto(company_profile, row.name, row, next_id, up)
           /\ next_id' = NextIdAfter(company_profile, row.name, next_id, up)
           /\ calls' = Append(calls, Call(i, "company_profile", "upsert", up, 0))
    /\ now' = now + 1
    /\ IF up = "raise"
       THEN Caught /\ UNCHANGED processed_count
       ELSE /\ processed_count' = processed_count + 1
            /\ i' = i + 1
            /\ UNCHANGED errors
    /\ UNCHANGED <<supabase, pc, data, csv_content, batch, response, posts, engagement_metrics>>

JsonPost(up, ins) ==
    /\ InLoop("json_loop")
    /\ Enter
    /\ Classify(batch[i]) = "post"
    /\ LET item == batch[i].d
           row == PostPayload(item)
           key == row.linkedin_post_id
           post_insert == UpsertData(posts, key, row, next_id, up)
           identity == Identity(post_insert)
           rate == calculate_engagement_rate(item)
           upserted == Call(i, "posts", "upsert", up,
                            IF up = "ok" THEN post_insert[1].id ELSE 0)
       IN  /\ posts' = UpsertInto(posts, key, row, next_id, up)
           /\ next_id' = NextIdAfter(posts, key, next_id, up)
           /\ IF up = "raise"
              THEN /\ Caught
                   /\ calls' = Append(calls, upserted)
                   /\ UNCHANGED <<processed_count, engagement_metrics, now>>
              ELSE IF ~identity.some
              THEN /\ i' = i + 1                \* "No data returned from post insert"
                   /\ calls' = Append(calls, upserted)
                   /\ UNCHANGED <<processed_count, engagement_metrics, errors, now>>
              ELSE IF ~rate.ok
              THEN /\ Caught
                   /\ calls' = Append(calls, upserted)
                   /\ UNCHANGED <<processed_count, engagement_metrics, now>>
              ELSE LET post_id == identity.id
                       metrics == MetricsPayload(item, post_id, rate.rate, now)
                   IN  /\ engagement_metrics' = AppendRow(engagement_metrics, metrics, ins)
                       /\ calls' = calls \o <<upserted,
                              Call(i, "engagement_metrics", "insert", ins, post_id)>>
                       /\ now' = now + 1
                       /\ IF ins = "raise"
                          THEN Caught /\ UNCHANGED processed_count
                          ELSE /\ processed_count' = processed_count + 1
                               /\ i' = i + 1
                               /\ UNCHANGED errors
    /\ UNCHANGED <<supabase, pc, data, csv_content, batch, response, company_profile>>

JsonRespond ==
    /\ pc = "json_loop"
    /\ i > Len(batch)
    /\ pc' = "done"
    /\ response' = Resp(200, [status |-> "success",
                              processed_count |-> processed_count,
                              format |-> "JSON"])
    /\ UNCHANGED <<supabase, data, csv_content, batch, i, processed_count, company_profile,
                   posts, engagement_metrics, next_id, calls, errors, visited, now>>

(***************************************************************************)
(* process_csv_posts: the loop body, lines 111-168                         *)
(***************************************************************************)
\* int(post.get(k1) or post.get(k2) or ... or 0)
IntField(post, keys) == PyInt(FirstTruthy(post, keys, I(0)))

\* post.get(k1) or ... or ''
TextField(post, keys) == FirstTruthy(post, keys, Empty)

\* hashlib.md5(text).hexdigest(): the digest stands as the text it digests
Md5Hex(text) == <<"m", "d", "5", ":">> \o text

\* s[:n]
Prefix(s, n) == SubSeq(s, 1, IF Len(s) < n THEN Len(s) ELSE n)

\* lines 116-132: [ok |-> FALSE] when an int() raises
CsvFields(post) ==
    LET content == TextField(post, <<"content", "Content", "text", "Text", "postContent">>)
        post_url == TextField(post, <<"postUrl", "Post URL", "url", "URL">>)
        published_at == TextField(post, <<"publishedAt", "Published At", "date",
                                          "Date", "createdAt">>)
        author == TextField(post, <<"author", "Author", "authorName", "profileName">>)
        likes == IntField(post, <<"likes", "Likes", "likeCount">>)
        comments == IntField(post, <<"comments", "Comments", "commentCount">>)
        shares == IntField(post, <<"shares", "Shares", "shareCount", "reposts">>)
        impressions == IntField(post, <<"impressions", "Impressions", "views">>)
        tags == extract_hashtags_and_mentions(content.s)
    IN  IF likes.ok /\ comments.ok /\ shares.ok /\ impressions.ok
        THEN [ok |-> TRUE, content |-> content, published_at |-> published_at,
              author |-> author, likes |-> likes.n, comments |-> comments.n,
              shares |-> shares.n, impressions |-> impressions.n,
              hashtags |-> tags.hashtags, mentions |-> tags.mentions,
              post_id |-> IF Truthy(post_url) THEN post_url
                          ELSE S(Md5Hex(Prefix(content.s, 100) \o published_at.s))]
        ELSE [ok |-> FALSE]

CsvPostPayload(post, f) ==
    [linkedin_post_id |-> f.post_id,
     content |-> f.content,
     post_type |-> FirstTruthy(post, <<"postType", "type">>, S(<<"p", "o", "s", "t">>)),
     published_at |-> f.published_at,
     author_id |-> f.author,
     hashtags |-> List(f.hashtags),
     mentions |-> List(f.mentions),
     raw_data |-> D(post)]

\* the engagement_rate argument of line 157
CsvRate(f) ==
    calculate_engagement_rate([likes |-> I(f.likes), comments |-> I(f.comments),
                               shares |-> I(f.shares),
                               impressions |-> I(f.impressions)])

CsvMetricsPayload(f, db_post_id, clicks, rate, at) ==
    [post_id |-> db_post_id,
     likes |-> I(f.likes),
     comments |-> I(f.comments),
     shares |-> I(f.shares),
     impressions |-> I(f.impressions),
     clicks |-> I(clicks),
     engagement_rate |-> rate,
     measured_at |-> at]

\* the operation line 150 calls on engagement_metrics
CsvMetricsOp == "upsert"

CsvPost(up, ins) ==
    /\ InLoop("csv_loop")
    /\ Enter
    /\ LET post == batch[i]
           f == CsvFields(post)
       IN  IF ~f.ok
           THEN /\ Caught
                /\ UNCHANGED <<processed_count, posts, engagement_metrics,
                               next_id, calls, now>>
           ELSE LET row == CsvPostPayload(post, f)
                    key == row.linkedin_post_id
                    post_insert == UpsertData(posts, key, row, next_id, up)
                    identity == Identity(post_insert)
                    upserted == Call(i, "posts", "upsert", up,
                                     IF up = "ok" THEN post_insert[1].id ELSE 0)
                    clicks == IntField(post, <<"clicks", "Clicks">>)
                    rate == CsvRate(f)
                IN  /\ posts' = UpsertInto(posts, key, row, next_id, up)
                    /\ next_id' = NextIdAfter(posts, key, next_id, up)
                    /\ IF up = "raise"
                       THEN /\ Caught
                            /\ calls' = Append(calls, upserted)
                            /\ UNCHANGED <<processed_count, engagement_metrics, now>>
                       ELSE IF ~identity.some
                       THEN /\ i' = i + 1
                            /\ calls' = Append(calls, upserted)
                            /\ UNCHANGED <<processed_count, engagement_metrics,
                                           errors, now>>
                       ELSE IF ~clicks.ok \/ ~rate.ok
                       THEN /\ Caught
                            /\ calls' = Append(calls, upserted)
                            /\ UNCHANGED <<processed_count, engagement_metrics, now>>
                       ELSE LET db_post_id == identity.id
                                metrics == CsvMetricsPayload(f, db_post_id, clicks.n,
                                                             rate.rate, now)
                            IN  /\ engagement_metrics' =
                                       AppendRow(engagement_metrics, metrics, ins)
                                /\ calls' = calls \o <<upserted,
                                       Call(i, "engagement_metrics", CsvMetricsOp,
                                            ins, db_post_id)>>
                                /\ now' = now + 1
                                /\ IF ins = "raise"
                                   THEN Caught /\ UNCHANGED processed_count
                                   ELSE /\ processed_count' = processed_count + 1
                                        /\ i' = i + 1
                                        /\ UNCHANGED errors
    /\ UNCHANGED <<supabase, pc, data, csv_content, batch, response, company_profile>>

CsvRespond ==
    /\ pc = "csv_loop"
    /\ i > Len(batch)
    /\ pc' = "done"
    /\ response' = Resp(200, [status |-> "success",
                              processed_count |-> processed_count,
                              total_count |-> Len(batch),
                              format |-> "CSV"])
    /\ UNCHANGED <<supabase, data, csv_content, batch, i, processed_count, company_profile,
                   posts, engagement_metrics, next_id, calls, errors, visited, now>>

(***************************************************************************)
(* The system                                                              *)
(***************************************************************************)
\* the content of the store when the call arrives: empty, or holding the
\* rows of an earlier ingestion of Company1 and Post1
StoredCompany == [id |-> 1] @@ CompanyPayload(Company1.d, 0)
StoredPost == [id |-> 2] @@ PostPayload(Post1.d)
StoredMetrics == MetricsPayload(Post1.d, 2, calculate_engagement_rate(Post1.d).rate, 1)

EmptyStore == [company_profile |-> << >>, posts |-> << >>,
               engagement_metrics |-> << >>, next_id |-> 1, now |-> 0]
LoadedStore == [company_profile |-> [k \in {S(Acme)} |-> StoredCompany],
                posts |-> [k \in {S(P1)} |-> StoredPost],
                engagement_metrics |-> <<StoredMetrics>>, next_id |-> 3, now |-> 2]

Init ==
    /\ supabase \in {"client", "None"}
    /\ pc = "idle"
    /\ data = None
    /\ csv_content = None
    /\ batch = << >>
    /\ i = 1
    /\ processed_count = 0
    /\ response = NoResponse
    /\ \E store \in {EmptyStore, LoadedStore} :
          /\ company_profile = store.company_profile
          /\ posts = store.posts
          /\ engagement_metrics = store.engagement_metrics
          /\ next_id = store.next_id
          /\ now = store.now
    /\ calls = << >>
    /\ errors = {}
    /\ visited = << >>

Next ==
    \/ /\ pc = "idle"
       /\ \E env \in Envelopes :
             \E download \in IF Downloading(supabase, env)
                              THEN Downloads(CsvUrl(env)) ELSE {None} :
                Receive(env, download)
    \/ JsonRaise
    \/ JsonUnknown
    \/ \E up \in UpsertOutcomes : JsonCompany(up)
    \/ \E up \in UpsertOutcomes, ins \in InsertOutcomes : JsonPost(up, ins)
    \/ JsonRespond
    \/ \E up \in UpsertOutcomes, ins \in InsertOutcomes : CsvPost(up, ins)
    \/ CsvRespond

Spec == Init /\ [][Next]_vars

(***************************************************************************)
(* What the call was given, read off request.json and the download         *)
(***************************************************************************)
Done == pc = "done"
HandlePresent == supabase = "client"

\* the body is a dict that names a CSV URL
CsvEnvelope == IsDict(data) /\ Truthy(CsvUrl(data))

\* the body is a dict that names no CSV URL and carries resultObject
JsonEnvelope ==
    IsDict(data) /\ ~Truthy(CsvUrl(data)) /\ "resultObject" \in DOMAIN data.d

\* resultObject is text that parses to a JSON list
JsonDecoded ==
    /\ JsonEnvelope
    /\ data.d.resultObject.t = "json"
    /\ data.d.resultObject.valid
    /\ data.d.resultObject.doc.t = "list"

\* the download returned a body (possibly empty)
CsvFetched == CsvEnvelope /\ csv_content # None

\* the download returned a CSV text with at least one record
CsvDecoded ==
    CsvFetched /\ Truthy(csv_content) /\ parse_csv_content(csv_content.s) # << >>

\* the records of the batch as decoded from the inputs
Decoded ==
    IF JsonDecoded THEN data.d.resultObject.doc.items
    ELSE parse_csv_content(csv_content.s)

\* the batch went through one of the two loops and the call returned
Completed == Done /\ HandlePresent /\ (JsonDecoded \/ CsvDecoded)

\* the store calls made for record k, in order
CallsOf(k) == SelectSeq(calls, LAMBDA c : c.rec = k)

\* record k was stored: a company upsert that did not raise, or a post
\* upsert that returned the identity of its row
Persisted(k) ==
    \E n \in 1..Len(calls) :
        /\ calls[n].rec = k
        /\ \/ calls[n].table = "company_profile" /\ calls[n].result # "raise"
           \/ calls[n].table = "posts" /\ calls[n].result = "ok"

(***************************************************************************)
(* Claims                                                                  *)
(***************************************************************************)

\* C1: per-record failure isolation.  When a batch of N decoded records
\* (JSON or CSV) has completed, whatever set F of its records raised, the
\* loop has entered its body once for every record in order, the response is HTTP 200 with status
\* success, and if every record outside F was stored (a Company, or a Post
\* that got its identity and its metrics write did not raise) then
\* processed_count = N - |F|.
C1_FailureIsolation ==
    Completed =>
        /\ batch = Decoded
        /\ visited = [k \in 1..Len(batch) |-> k]
        /\ errors \subseteq 1..Len(batch)
        /\ response.code = 200
        /\ response.body.status = "success"
        /\ (\A k \in (1..Len(batch)) \ errors : Persisted(k))
              => response.body.processed_count = Len(batch) - Cardinality(errors)

\* C1 witness: a two-record batch whose first record raised and whose
\* second was stored and counted.
C1_Witness ==
    /\ Completed
    /\ Len(batch) = 2
    /\ errors = {1}
    /\ Persisted(2)
    /\ response.body.processed_count = 1

\* C2 (as claimed): metrics are append-only, every write to
\* engagement_metrics is an insert, never an upsert.  The CSV loop calls
\* upsert (line 150).
C2_MetricsInsertOnly ==
    \A n \in 1..Len(calls) :
        calls[n].table = "engagement_metrics" => calls[n].op = "insert"

\* the metrics writes of this call that stored a row, in order
MetricsWritten ==
    SelectSeq(calls, LAMBDA c : c.table = "engagement_metrics" /\ c.result = "ok")

\* C3: referential invariant.  Every write to engagement_metrics directly
\* follows a posts upsert for the same record that returned the identity
\* the write carries as post_id; a record whose posts upsert raised or
\* returned no identity gets no metrics write at all; and the rows this
\* call added to engagement_metrics carry those identities, each the id of
\* a row of posts.
C3_Referential ==
    /\ \A n \in 1..Len(calls) :
          calls[n].table = "engagement_metrics" =>
              /\ n > 1
              /\ calls[n - 1].table = "posts"
              /\ calls[n - 1].op = "upsert"
              /\ calls[n - 1].rec = calls[n].rec
              /\ calls[n - 1].result = "ok"
              /\ calls[n - 1].id = calls[n].id
    /\ \A n \in 1..Len(calls) :
          (calls[n].table = "posts" /\ calls[n].result # "ok") =>
              \A m \in 1..Len(calls) :
                  ~(calls[m].table = "engagement_metrics" /\ calls[m].rec = calls[n].rec)
    /\ Len(MetricsWritten) <= Len(engagement_metrics)
    /\ \A j \in 1..Len(MetricsWritten) :
          LET row == engagement_metrics[Len(engagement_metrics)
                                        - Len(MetricsWritten) + j]
          IN  /\ row.post_id = MetricsWritten[j].id
              /\ \E key \in DOMAIN posts : posts[key].id = row.post_id

\* C3 witness: one record's post upsert returned no identity and got no
\* metrics write, another's returned one and its metrics row was stored.
C3_Witness ==
    /\ \E n \in 1..Len(calls) :
          calls[n].table = "posts" /\ calls[n].result \in {"nodata", "dropped"}
    /\ MetricsWritten # << >>

\* field name of record k of the batch, None when the record has none
FieldOf(k, name) ==
    IF JsonDecoded
    THEN IF IsDict(batch[k]) THEN Get(batch[k].d, name) ELSE None
    ELSE Get(batch[k], name)

\* record k was handled as a Company: one upsert into company_profile and
\* no other store call
HandledAsCompany(k) ==
    /\ Len(CallsOf(k)) = 1
    /\ CallsOf(k)[1].table = "company_profile"
    /\ CallsOf(k)[1].op = "upsert"

FatalDecode ==
    /\ IsDict(data)
    /\ \/ ~Truthy(CsvUrl(data)) /\ "resultObject" \notin DOMAIN data.d
       \/ /\ JsonEnvelope
          /\ data.d.resultObject.t = "json"
          /\ ~data.d.resultObject.valid
       \/ /\ JsonEnvelope
          /\ data.d.resultObject.t = "json"
          /\ data.d.resultObject.valid
          /\ data.d.resultObject.doc.t # "list"
       \/ CsvEnvelope /\ csv_content = None

\* C5 (as claimed): a body with no recognizable shape, a resultObject that
\* is not valid JSON or does not parse to a list, or a failed CSV download
\* is answered HTTP 400 with status error and no processed_count, and
\* nothing is written.
C5_DecodeFailureIs400 ==
    (Done /\ HandlePresent /\ FatalDecode) =>
        /\ response.code = 400
        /\ response.body.status = "error"
        /\ "processed_count" \notin DOMAIN response.body
        /\ calls = << >>

\* C6 (as claimed): every completed batch, in either format, returns
\* processed_count, total_count and format, total_count the number of
\* decoded records and 0 <= processed_count <= total_count.
C6_ResultShape ==
    Completed =>
        /\ {"processed_count", "total_count", "format"} \subseteq DOMAIN response.body
        /\ response.body.total_count = Len(Decoded)
        /\ response.body.format = (IF JsonDecoded THEN "JSON" ELSE "CSV")
        /\ 0 <= response.body.processed_count
        /\ response.body.processed_count <= response.body.total_count

\* every store call of this webhook call raised, and there was one
AllCallsFailed ==
    calls # << >> /\ \A n \in 1..Len(calls) : calls[n].result = "raise"

\* C7 (as claimed): when the store cannot be reached during a call, the
\* handle missing or every call on it failing, the response is HTTP 500
\* with status error.
C7_UnreachableIs500 ==
    (Done /\ (supabase = "None" \/ AllCallsFailed)) =>
        response.code = 500 /\ response.body.status = "error"

\* C7 (amended): a missing handle is batch-fatal, HTTP 500 with status
\* error before anything is read or written; on an existing handle, calls
\* that all fail are absorbed record by record and the completed batch is
\* answered HTTP 200, status success, processed_count 0.
C7_MissingHandleIs500 ==
    /\ (Done /\ supabase = "None") =>
          /\ response.code = 500
          /\ response.body.status = "error"
          /\ calls = << >>
          /\ visited = << >>
    /\ (Done /\ HandlePresent /\ AllCallsFailed) =>
          /\ response.code = 200
          /\ response.body.status = "success"
          /\ response.body.processed_count = 0

\* C7 witness: a call returned although each of its two store calls raised.
C7_Witness == Done /\ HandlePresent /\ AllCallsFailed /\ Len(calls) = 2

\* C8 (as claimed): a batch whose envelope decoded and whose payload was
\* fetched (a JSON list, a CSV body that is not empty) completes with HTTP
\* 200, a CSV with only a header row and an empty JSON array included.
C8_FetchedIs200 ==
    (Done /\ HandlePresent /\ (JsonDecoded \/ (CsvFetched /\ Truthy(csv_content))))
        => response.code = 200

\* C8 (amended): a JSON list, empty or not, and a CSV that decoded to at
\* least one record complete with HTTP 200 and status success whatever
\* happens to their records; a CSV that was downloaded but holds no record
\* (an empty body, a header row alone) is answered HTTP 400 and nothing is
\* written.
C8_DecodedIs200 ==
    /\ Completed => response.code = 200 /\ response.body.status = "success"
    /\ (Done /\ HandlePresent /\ CsvFetched /\ ~CsvDecoded) =>
          /\ response.code = 400
          /\ response.body.status = "error"
          /\ calls = << >>

\* C8 witness: an empty JSON array completed, nothing processed.
C8_Witness ==
    /\ Completed
    /\ JsonDecoded
    /\ Decoded = << >>
    /\ response.code = 200
    /\ response.body.processed_count = 0

\* C9 (as claimed): every row of engagement_metrics has engagement_rate =
\* round(100 * (likes + comments + shares + clicks) / d, 2), over the
\* values stored in that row, d = impressions if impressions > 0 else 1.
C9_RateOfStoredRow ==
    \A n \in 1..Len(engagement_metrics) :
        LET row == engagement_metrics[n]
        IN  row.engagement_rate =
                Round2(row.likes.n + row.comments.n + row.shares.n + row.clicks.n,
                       IF row.impressions.n > 0 THEN row.impressions.n ELSE 1)

\* C10 (as claimed): non-numeric text in a numeric field is read as 0 and
\* never raises, so in a CSV batch whose store calls all succeeded no
\* record was caught and every record was counted.
C10_SoftIntegers ==
    (Completed /\ CsvDecoded /\ \A n \in 1..Len(calls) : calls[n].result = "ok") =>
        /\ errors = {}
        /\ response.body.processed_count = Len(batch)

\* record k of the batch in arrival order, as a dict (the empty dict when
\* the item is none)
RecordOf(k) ==
    IF JsonDecoded
    THEN IF IsDict(Decoded[k]) THEN Decoded[k].d ELSE << >>
    ELSE Decoded[k]

\* the natural key store call n writes under
KeyOf(n) ==
    LET r == RecordOf(calls[n].rec)
    IN  IF calls[n].table = "company_profile" THEN r["companyName"]
        ELSE IF JsonDecoded THEN Get(r, "postId")
        ELSE CsvFields(r).post_id

\* call n is an upsert into table that the store carried out
Upserted(n, table) ==
    /\ calls[n].table = table
    /\ calls[n].op = "upsert"
    /\ Written(calls[n].result)

\* call n is the last upsert the store carried out under its key
LastUpsert(n, table) ==
    /\ Upserted(n, table)
    /\ \A m \in (n + 1)..Len(calls) : ~(Upserted(m, table) /\ KeyOf(m) = KeyOf(n))

\* the clock when call n built its payload: it ticks once per company
\* upsert and once per metrics write
NowAt(n) ==
    now - Cardinality({m \in n..Len(calls) :
                          calls[m].table \in {"company_profile", "engagement_metrics"}})

\* C11: sequential last-write-wins.  When a batch has completed, the loop
\* has entered its body once for every record in arrival order, the store
\* calls were made in record order with at most one call per record and
\* table (no retry), and for every natural key upserted during the batch
\* the stored row holds the fields of the last record in arrival order
\* whose upsert under that key the store carried out.
C11_LastWriteWins ==
    Completed =>
        /\ visited = [k \in 1..Len(Decoded) |-> k]
        /\ \A n, m \in 1..Len(calls) :
              /\ n < m => calls[n].rec <= calls[m].rec
              /\ (n # m /\ calls[n].rec = calls[m].rec) => calls[n].table # calls[m].table
        /\ \A n \in 1..Len(calls) :
              /\ LastUpsert(n, "company_profile") =>
                    /\ KeyOf(n) \in DOMAIN company_profile
                    /\ LET r == RecordOf(calls[n].rec)
                           row == company_profile[KeyOf(n)]
                       IN  /\ row.name = r["companyName"]
                           /\ row.followers = GetD(r, "followerCount", I(0))
                           /\ row.linkedin_url = GetD(r, "companyUrl", Empty)
                           /\ row.fetched_at = NowAt(n)
              /\ LastUpsert(n, "posts") =>
                    /\ KeyOf(n) \in DOMAIN posts
                    /\ LET r == RecordOf(calls[n].rec)
                           row == posts[KeyOf(n)]
                       IN  /\ row.linkedin_post_id = KeyOf(n)
                           /\ row.raw_data = D(r)

\* C11 witness: two different records of a completed batch were upserted
\* under the same natural key, both carried out by the store.
C11_Witness ==
    /\ Completed
    /\ \E n, m \in 1..Len(calls) :
          /\ n < m
          /\ calls[n].table = calls[m].table
          /\ Upserted(n, calls[n].table)
          /\ Upserted(m, calls[m].table)
          /\ KeyOf(n) = KeyOf(m)
          /\ RecordOf(calls[n].rec) # RecordOf(calls[m].rec)

\* record k of a CSV batch names neither a company nor a post
CsvUnrecognized(k) ==
    /\ ~Truthy(FieldOf(k, "companyName"))
    /\ ~Truthy(FieldOf(k, "postId"))
    /\ ~Truthy(FieldOf(k, "postUrl"))

\* C12 (as claimed): the records of a CSV batch are classified: one that
\* carries a companyName is upserted into company_profile and not into
\* posts, one that is neither Company nor Post causes no write and is not
\* counted.
C12_CsvClassified ==
    (HandlePresent /\ CsvDecoded) =>
        /\ \A k \in 1..Len(visited) :
              /\ Truthy(FieldOf(k, "companyName")) => HandledAsCompany(k)
              /\ CsvUnrecognized(k) => CallsOf(k) = << >>
        /\ Done => response.body.processed_count
                      <= Cardinality({k \in 1..Len(batch) : ~CsvUnrecognized(k)})

\* C12 (amended): the records of a CSV batch are not classified.  The loop
\* runs over every decoded record; each record whose numeric columns parse
\* is upserted into posts, one carrying a companyName included, and no CSV
\* record is ever written to company_profile.
C12_CsvAllPosts ==
    (HandlePresent /\ CsvDecoded) =>
        /\ \A n \in 1..Len(calls) : calls[n].table # "company_profile"
        /\ \A k \in 1..Len(visited) :
              /\ batch[k] = Decoded[k]
              /\ IF CsvFields(Decoded[k]).ok
                 THEN /\ CallsOf(k) # << >>
                      /\ CallsOf(k)[1].table = "posts"
                      /\ CallsOf(k)[1].op = "upsert"
                 ELSE CallsOf(k) = << >>
        /\ Done => visited = [k \in 1..Len(Decoded) |-> k]

\* C12 witness: a CSV record that carries a companyName and no post URL was
\* upserted into posts, got its metrics row and was counted.
C12_Witness ==
    /\ Completed
    /\ CsvDecoded
    /\ \E k \in 1..Len(Decoded) :
          /\ Truthy(Get(Decoded[k], "companyName"))
          /\ ~Truthy(Get(Decoded[k], "postUrl"))
          /\ Len(CallsOf(k)) = 2
          /\ CallsOf(k)[1].table = "posts"
          /\ CallsOf(k)[1].result = "ok"
          /\ CallsOf(k)[2].result = "ok"
          /\ \E key \in DOMAIN posts : posts[key].raw_data = D(Decoded[k])
    /\ response.body.processed_count = Len(Decoded)

\* C13 (as claimed): null-valued keys do not classify.  A JSON record whose
\* companyName is null gets no company upsert, one whose postId is null
\* gets no post upsert, one with neither field non-null causes no store
\* call, and no row is stored under a null name or a null
\* linkedin_post_id.
C13_NullKeysDoNotClassify ==
    (HandlePresent /\ JsonDecoded) =>
        /\ \A k \in 1..Len(visited) :
              /\ FieldOf(k, "companyName") = None =>
                    \A n \in 1..Len(calls) :
                        ~(calls[n].rec = k /\ calls[n].table = "company_profile")
              /\ FieldOf(k, "postId") = None =>
                    \A n \in 1..Len(calls) :
                        ~(calls[n].rec = k /\ calls[n].table = "posts")
              /\ (FieldOf(k, "companyName") = None /\ FieldOf(k, "postId") = None)
                    => CallsOf(k) = << >>
        /\ \A key \in DOMAIN company_profile : company_profile[key].name # None
        /\ \A key \in DOMAIN posts : posts[key].linkedin_post_id # None

\* the records a CSV text holds when only the data rows with as many
\* columns as the header count: keyed by the trimmed header, values trimmed
WellFormedRecords(csv_text) ==
    LET rows == CsvReader(csv_text)
        header == Head(rows)
        well == SelectSeq(Tail(rows), LAMBDA r : Len(r) = Len(header))
        column(key) == CHOOSE j \in 1..Len(header) : Text(Strip(header[j])) = key
    IN  [k \in 1..Len(well) |->
            [key \in {Text(Strip(header[j])) : j \in 1..Len(header)} |->
                S(Strip(well[k][column(key)]))]]

\* C14 (as claimed): CSV per-row isolation.  Decoding a downloaded CSV text
\* yields exactly one record per data row that has as many columns as the
\* header, keyed by the header with every value trimmed; a row with fewer
\* or more columns yields no record and the other rows are still decoded.
C14_CsvRowIsolation ==
    (HandlePresent /\ CsvFetched /\ Truthy(csv_content)) =>
        /\ parse_csv_content(csv_content.s) = WellFormedRecords(csv_content.s)
        /\ pc = "csv_loop" => batch = WellFormedRecords(csv_content.s)

\* the company upserts of this call that returned without raising
CompanyReturned ==
    SelectSeq(calls, LAMBDA c : c.table = "company_profile" /\ c.result # "raise")

\* C15: count/store agreement.  Throughout a batch the running count, and
\* at its end the processed_count of the response, equals the number of
\* company upserts that returned without error plus the number of
\* engagement_metrics rows written during the batch; a record that made no
\* such call (unrecognized, a post without identity, a post whose metrics
\* write raised, a record that raised) adds nothing.
C15_CountAgreement ==
    (HandlePresent /\ (JsonDecoded \/ CsvDecoded)) =>
        /\ processed_count = Len(CompanyReturned) + Len(MetricsWritten)
        /\ Done => response.body.processed_count
                      = Len(CompanyReturned) + Len(MetricsWritten)
        /\ processed_count =
              Cardinality({k \in 1..Len(visited) :
                              \E n \in 1..Len(calls) :
                                  /\ calls[n].rec = k
                                  /\ calls[n].result # "raise"
                                  /\ calls[n].table \in {"company_profile",
                                                          "engagement_metrics"}})

\* C15 witness: a completed two-record JSON batch with one unrecognized
\* record, which made no store call and raised nothing, and one counted
\* record.
C15_Witness ==
    /\ Completed
    /\ JsonDecoded
    /\ Len(batch) = 2
    /\ \E k \in 1..2 : CallsOf(k) = << >> /\ k \notin errors
    /\ response.body.processed_count = 1

====
